---- MODULE Spec2Model ----
(***************************************************************************)
(* A model of src/promise.js: the Promise constructor, resolve, reject,    *)
(* then, catch, the private helpers they call and the static all, race,    *)
(* resolve and reject.  Every call in the source is                        *)
(* synchronous (the file never schedules anything), so one top-level call  *)
(* of the host program is one action.  Each function of the source is an   *)
(* operator that takes the world and returns the world it leaves and the   *)
(* calls it makes next, in order; Run makes those calls, depth first, as   *)
(* the JavaScript call stack does.                                         *)
(***************************************************************************)
EXTENDS Naturals, Sequences, FiniteSets, TLC

VARIABLES heap, scopes, log, first, ignored, origin, escaped, returned

vars == <<heap, scopes, log, first, ignored, origin, escaped, returned>>

(***************************************************************************)
(* Bounds of the model.                                                    *)
(***************************************************************************)
MaxCells == 3
MaxElements == 2
MaxInternal == 2

(***************************************************************************)
(* State enum, promise.js 5-9.                                             *)
(***************************************************************************)
PENDING == "pending"
FULFILLED == "fulfilled"
REJECTED == "rejected"

(***************************************************************************)
(* JavaScript values.  Every value is a record [k, n]: k is its kind, n    *)
(* tells values of one kind apart.                                         *)
(*   num       a number (primitive)                                        *)
(*   undef     undefined (primitive)                                       *)
(*   null      null: typeof is 'object', reading a property throws         *)
(*   obj       an object literal without a then member (test.js sentinel)  *)
(*   err       an Error-like object, without a then member                 *)
(*   cell      the Promise heap[n]                                         *)
(*   thenable  an object whose then member is Thenables[n]                 *)
(*   fn        a user function, Handlers[n], without a then member         *)
(*   bres/brej this.resolve.bind(heap[n]) / this.reject.bind(heap[n])      *)
(*   arr       the array resultArr of the executor of heap[n]              *)
(*   allF/allR the two functions Promise.all passes to then for element i  *)
(*             of its iterable, closed over the executor of heap[n]        *)
(*   raceF/raceR  the two functions Promise.race passes to then            *)
(***************************************************************************)
Num(n) == [k |-> "num", n |-> n]
Undefined == [k |-> "undef", n |-> 0]
Null == [k |-> "null", n |-> 0]
Obj(n) == [k |-> "obj", n |-> n]
Err(n) == [k |-> "err", n |-> n]
Cell(n) == [k |-> "cell", n |-> n]
Thenable(n) == [k |-> "thenable", n |-> n]
Fn(n) == [k |-> "fn", n |-> n]
BoundResolve(c) == [k |-> "bres", n |-> c]
BoundReject(c) == [k |-> "brej", n |-> c]
Arr(c) == [k |-> "arr", n |-> c]
AllFulfilled(c, i) == [k |-> "allF", n |-> c, i |-> i]
AllRejected(c) == [k |-> "allR", n |-> c]
RaceFulfilled(c) == [k |-> "raceF", n |-> c]
RaceRejected(c) == [k |-> "raceR", n |-> c]

\* test.js 11-12: the fulfillment value the test looks for, and the object
\* its thenable throws
sentinel == Obj(1)
other == Obj(2)

\* promise.js 77: new TypeError('Cannot resolve a promise with itself')
SelfTypeError == Err(0)
\* the TypeError the engine throws for null.then at promise.js 91
NullTypeError == Err(1)
\* what a host program rejects with, what an executor throws, what a handler throws
Reason == Err(2)
ExecError == Err(3)
HandlerError == Err(4)
\* the TypeError the engine throws for promise.then(...) at promise.js 323 and
\* 349 when promise has no then member
NotAFunctionTypeError == Err(5)

\* typeof value, as promise.js 88 and 101 use it
TypeOf(value) ==
    CASE value.k \in {"null", "obj", "err", "cell", "thenable", "arr"} -> "object"
      [] value.k \in {"fn", "bres", "brej", "allF", "allR", "raceF", "raceR"} ->
           "function"
      [] value.k = "num" -> "number"
      [] OTHER -> "undefined"

(***************************************************************************)
(* A function of the host program that receives the two bound callbacks    *)
(* (an executor, or the then member of a thenable) or a value (a handler)  *)
(* is a script: the calls it makes, in order, and how it ends.             *)
(*   [op |-> "res", arg |-> v]    calls its first argument with v          *)
(*   [op |-> "rej", arg |-> v]    calls its second argument with v         *)
(*   [op |-> "throw", arg |-> v]  throws v                                 *)
(*   [op |-> "ret", arg |-> v]    returns v                                *)
(* A script that ends without throw or ret returns undefined.              *)
(***************************************************************************)
Res(v) == [op |-> "res", arg |-> v]
Rej(v) == [op |-> "rej", arg |-> v]
Throw(v) == [op |-> "throw", arg |-> v]
Ret(v) == [op |-> "ret", arg |-> v]

\* The thenables a host program hands to resolve.  getter: reading .then throws.
\* Thenables[4] is the one of test.js 24-31 (unnamed/part_000 21-26), with
\* d = heap[1].  Thenables[8] and Thenables[10] are nested two and three deep:
\* their then passes the next thenable to its resolve callback, and the
\* innermost, Thenables[9], passes sentinel.
Thenables ==
    << [getter |-> TRUE,  then |-> <<Throw(other)>>],
       [getter |-> FALSE, then |-> <<>>],
       [getter |-> FALSE, then |-> <<Res(Num(1)), Throw(other)>>],
       [getter |-> FALSE, then |-> <<Res(Cell(1)), Throw(other)>>],
       [getter |-> FALSE, then |-> <<Throw(other)>>],
       [getter |-> FALSE, then |-> <<Res(Thenable(2)), Throw(other)>>],
       [getter |-> FALSE, then |-> <<Res(Num(1)), Rej(Reason), Res(Num(2))>>],
       [getter |-> FALSE, then |-> <<Res(Thenable(9))>>],
       [getter |-> FALSE, then |-> <<Res(sentinel)>>],
       [getter |-> FALSE, then |-> <<Res(Thenable(8))>>] >>

\* The executors a host program hands to the constructor.
Executors ==
    << <<Throw(ExecError)>>,
       <<Res(Num(1)), Throw(ExecError)>>,
       <<Rej(Reason), Throw(ExecError)>>,
       <<Res(Cell(1)), Throw(ExecError)>> >>

\* The handlers a host program hands to then.
Handlers ==
    << <<Ret(Num(2))>>,
       <<Throw(HandlerError)>> >>

(***************************************************************************)
(* The world the nested calls of one top-level call act on.                *)
(*   heap      the Promise objects, in order of construction; heap[c] has  *)
(*             the fields the constructor sets (promise.js 30-54): vc and  *)
(*             rc are _valueContainer and _reasonContainer, <<>> for null  *)
(*             and <<v>> for {VALUE: v} / {REASON: v}; onF and onR are     *)
(*             _onFulfilleds and _onRejecteds                              *)
(*   scopes    scopes[c] holds the local variables of the executor of      *)
(*             heap[c] that the functions it makes close over:             *)
(*             promisesLeft and resultArr (promise.js 319-320, holes of    *)
(*             the new Array read as undefined) and finished (346)         *)
(*   log       history: the invocations of the host program's handlers     *)
(*   first     history: the first resolve or reject call heap[c] got:      *)
(*             <<>> none yet, <<q>> resolve(heap[q]) with q # c (the       *)
(*             adoption of promise.js 83), <<0>> any other call            *)
(*   ignored   history: some resolve or reject call found its Promise      *)
(*             settled and returned at promise.js 71 or 127                *)
(*   origin    history: the executor heap[c] was constructed with          *)
(*   escaped   an exception left the top-level call                        *)
(*   returned  what the last top-level call returned to the host program   *)
(***************************************************************************)
World ==
    [heap |-> heap, scopes |-> scopes, log |-> log, first |-> first,
     ignored |-> ignored, origin |-> origin, escaped |-> escaped,
     returned |-> returned]

\* promise.js 24-54: the fields of a new Promise
NewPromise ==
    [state |-> PENDING, onF |-> <<>>, onR |-> <<>>, vc |-> <<>>, rc |-> <<>>]

\* The local variables of an executor before it assigns them
NoScope ==
    [promisesLeft |-> 0, resultArr |-> <<>>, finished |-> FALSE]

\* The receiver of a function called without one (promise.js 220 calls
\* executor(...) plainly, and promise.js has no 'use strict'): the global
\* object, which is no Promise and has none of its fields.
GlobalThis == 0

\* this._state read on a receiver: undefined on the global object
StateOf(w, this) ==
    IF this = GlobalThis THEN "undefined" ELSE w.heap[this].state

\* value == this, promise.js 76, this being a Promise: identity when value
\* is an object or a function, and false for null, undefined and a number
LooseEquals(value, this) ==
    value = Cell(this)

\* History only: heap[c] gets a resolve or reject call; q is the Promise it is
\* told to adopt, 0 when the call is no adoption.
Note(w, c, q) ==
    [w EXCEPT !.first[c] = IF @ = <<>> THEN <<q>> ELSE @,
              !.ignored = @ \/ w.heap[c].state # PENDING]

\* What a function leaves: the world, and the calls it makes next.
Done(w) == [w |-> w, push |-> <<>>]
Calls(w, push) == [w |-> w, push |-> push]

\* The calls: heap[c].resolve(v); heap[c].reject(v); a wrapper of promise.js
\* 150 applied to v; a script from its i-th step on, whose resolve and reject
\* arguments are those of heap[self], whose result heap[ret] is resolved with
\* (ret # 0) and whose exception heap[catch] is rejected with (catch # 0);
\* and the second half of the executor of then.
ResolveCall(c, v) == [op |-> "resolve", c |-> c, v |-> v]
RejectCall(c, v) == [op |-> "reject", c |-> c, v |-> v]
WrapperCall(wr, v, via) == [op |-> "wrapper", wr |-> wr, v |-> v, via |-> via]
ScriptCall(script, i, self, ret, catch) ==
    [op |-> "script", script |-> script, i |-> i, self |-> self, ret |-> ret,
     catch |-> catch]
RejectedHalfCall(c2, this, onRejected) ==
    [op |-> "then2", c2 |-> c2, this |-> this, onR |-> onRejected]

\* The calls of the two static combinators: the forEach of promise.js 322 or
\* 348 from element i on, made by the executor of heap[c], whose exception
\* heap[catch] is rejected with (catch # 0)
AllForEachCall(c, iterable, i, catch) ==
    [op |-> "allEach", c |-> c, iterable |-> iterable, i |-> i, catch |-> catch]
RaceForEachCall(c, iterable, i, catch) ==
    [op |-> "raceEach", c |-> c, iterable |-> iterable, i |-> i, catch |-> catch]

\* return v, of the top-level call
ReturnCall(v) == [op |-> "return", v |-> v]

\* The executor argument of the constructor: none, Executors[i], or the
\* function promise.js 145 builds for heap[c].then(onFulfilled, onRejected);
\* was is the state heap[c] had at that call (history only).
NoExecutor ==
    [k |-> "none", n |-> 0, onF |-> Undefined, onR |-> Undefined, was |-> "",
     iterable |-> <<>>]
Script(i) ==
    [k |-> "script", n |-> i, onF |-> Undefined, onR |-> Undefined, was |-> "",
     iterable |-> <<>>]
ThenOf(c, onFulfilled, onRejected, was) ==
    [k |-> "then", n |-> c, onF |-> onFulfilled, onR |-> onRejected, was |-> was,
     iterable |-> <<>>]
\* the executors promise.js 318 and 345 build for all(iterable), race(iterable)
AllOf(iterable) ==
    [k |-> "all", n |-> 0, onF |-> Undefined, onR |-> Undefined, was |-> "",
     iterable |-> iterable]
RaceOf(iterable) ==
    [k |-> "race", n |-> 0, onF |-> Undefined, onR |-> Undefined, was |-> "",
     iterable |-> iterable]

\* _setValue storing into the container of the reason
_setValue_misplaced(w, c, value) ==
    IF w.heap[c].vc # <<>>
    THEN [w EXCEPT !.escaped = TRUE]
    ELSE [w EXCEPT !.heap[c].rc = <<value>>]

\* promise.js 241-247.  The throw of line 243 is recorded in escaped.
_setValue(w, c, value) ==
    IF w.heap[c].vc # <<>>
    THEN [w EXCEPT !.escaped = TRUE]
    ELSE [w EXCEPT !.heap[c].vc = <<value>>]

\* promise.js 254-260
_getValue(w, c) == w.heap[c].vc[1]

\* promise.js 267-273.  The throw of line 269 is recorded in escaped.
_setReason(w, c, reason) ==
    IF w.heap[c].rc # <<>>
    THEN [w EXCEPT !.escaped = TRUE]
    ELSE [w EXCEPT !.heap[c].rc = <<reason>>]

\* promise.js 280-286: line 285 evaluates the reason and returns nothing
_getReason(w, c) == Undefined

\* One step of a script (a function of the host program).
RunScript(w, fr) ==
    LET s == IF fr.i > Len(fr.script) THEN Ret(Undefined) ELSE fr.script[fr.i]
    IN  CASE s.op = "res" ->
               Calls(w, <<ResolveCall(fr.self, s.arg), [fr EXCEPT !.i = @ + 1]>>)
          [] s.op = "rej" ->
               Calls(w, <<RejectCall(fr.self, s.arg), [fr EXCEPT !.i = @ + 1]>>)
          [] s.op = "throw" ->
               IF fr.catch # 0
               THEN Calls(w, <<RejectCall(fr.catch, s.arg)>>)
               ELSE Done([w EXCEPT !.escaped = TRUE])
          [] OTHER ->
               IF fr.ret # 0
               THEN Calls(w, <<ResolveCall(fr.ret, s.arg)>>)
               ELSE Done(w)

\* promise.js 323-329: function (value) of Promise.all, made for element i by
\* the executor of heap[c], called by the wrapper of heap[c2]; it returns
\* undefined, which the wrapper resolves heap[c2] with
allOnFulfilled(w, c, i, value, c2) ==
    LET w1 == [w EXCEPT !.scopes[c].resultArr[i] = value,
                        !.scopes[c].promisesLeft = @ - 1]
    IN  IF w1.scopes[c].promisesLeft = 0
        THEN Calls(w1, <<ResolveCall(c, Arr(c)), ResolveCall(c2, Undefined)>>)
        ELSE Calls(w1, <<ResolveCall(c2, Undefined)>>)

\* promise.js 349-363: function (value) and function (reason) of Promise.race,
\* made by the executor of heap[c]; settle is the call of line 355 or 362
raceOnSettled(w, settle, c, c2) ==
    IF w.scopes[c].finished
    THEN Calls(w, <<ResolveCall(c2, Undefined)>>)
    ELSE Calls([w EXCEPT !.scopes[c].finished = TRUE],
               <<settle, ResolveCall(c2, Undefined)>>)

\* promise.js 149-159: the wrapper makeWrapper(onComplete) returns, made by
\* the executor of heap[c2]; wr is [fn |-> onComplete, c2 |-> c2].  onComplete
\* is a bound callback of promise.js 233 or a function of promise.js 323-331
\* or 349-363, which return undefined, or a handler of the host program,
\* whose invocation the history records.
onCompleteWrapper(w, wr, value, via) ==
    CASE wr.fn.k = "bres" ->
           Calls(w, <<ResolveCall(wr.fn.n, value), ResolveCall(wr.c2, Undefined)>>)
      [] wr.fn.k = "brej" ->
           Calls(w, <<RejectCall(wr.fn.n, value), ResolveCall(wr.c2, Undefined)>>)
      [] wr.fn.k = "allF" ->
           allOnFulfilled(w, wr.fn.n, wr.fn.i, value, wr.c2)
      [] wr.fn.k = "allR" ->
           Calls(w, <<RejectCall(wr.fn.n, value), ResolveCall(wr.c2, Undefined)>>)
      [] wr.fn.k = "raceF" ->
           raceOnSettled(w, ResolveCall(wr.fn.n, value), wr.fn.n, wr.c2)
      [] wr.fn.k = "raceR" ->
           raceOnSettled(w, RejectCall(wr.fn.n, value), wr.fn.n, wr.c2)
      [] OTHER ->
           Calls([w EXCEPT !.log = Append(@, [fn |-> wr.fn, arg |-> value,
                                              c2 |-> wr.c2, via |-> via])],
                 <<ScriptCall(Handlers[wr.fn.n], 1, GlobalThis, wr.c2, wr.c2)>>)

\* Array.prototype.forEach over a list of wrappers, promise.js 294 and 305
ForEach(list, value, via) ==
    [i \in 1 .. Len(list) |-> WrapperCall(list[i], value, via)]

\* promise.js 293-297
_callSuccessFunctions(w, c, value) ==
    Calls(w, ForEach(w.heap[c].onF, value, "resolve"))

\* promise.js 304-308
_callFailureFunctions(w, c, reason) ==
    Calls(w, ForEach(w.heap[c].onR, reason, "reject"))

\* reject without the guard of promise.js 126-128
reject_unguarded(w0, c, reason) ==
    LET w == Note(w0, c, 0)
    IN  _callFailureFunctions(
            _setReason([w EXCEPT !.heap[c].state = REJECTED], c, reason),
            c, reason)

\* promise.js 125-133
reject(w0, c, reason) ==
    LET w == Note(w0, c, 0)
    IN  IF w.heap[c].state # PENDING
        THEN Done(w)
        ELSE _callFailureFunctions(
                 _setReason([w EXCEPT !.heap[c].state = REJECTED], c, reason),
                 c, reason)

\* promise.js 180-197: the second half of the executor of then
thenExecutorRejected(w, c2, this, onRejected) ==
    IF TypeOf(onRejected) = "function"
    THEN IF StateOf(w, this) = PENDING
         THEN Done([w EXCEPT !.heap[this].onR =
                                 Append(@, [fn |-> onRejected, c2 |-> c2])])
         ELSE IF StateOf(w, this) = REJECTED
              THEN Calls(w, <<WrapperCall([fn |-> onRejected, c2 |-> c2],
                                          _getReason(w, this), "then")>>)
              ELSE Done(w)
    ELSE IF StateOf(w, this) = REJECTED
         THEN Calls(w, <<RejectCall(c2, _getReason(w, this))>>)
         ELSE Done(w)

\* promise.js 145-178: the executor then hands to the constructor, run for the
\* new Promise heap[c2] with receiver this; its second half follows the calls
\* of the first
thenExecutor(w, c2, this, onFulfilled, onRejected) ==
    LET rest == <<RejectedHalfCall(c2, this, onRejected)>>
    IN  IF TypeOf(onFulfilled) = "function"
        THEN IF StateOf(w, this) = PENDING
             THEN Calls([w EXCEPT !.heap[this].onF =
                                      Append(@, [fn |-> onFulfilled, c2 |-> c2])],
                        rest)
             ELSE IF StateOf(w, this) = FULFILLED
                  THEN Calls(w, <<WrapperCall([fn |-> onFulfilled, c2 |-> c2],
                                              _getValue(w, this), "then")>> \o rest)
                  ELSE Calls(w, rest)
        ELSE IF StateOf(w, this) = FULFILLED
             THEN Calls(w, <<ResolveCall(c2, _getValue(w, this))>> \o rest)
             ELSE Calls(w, rest)

\* promise.js 318-334: the executor of Promise.all, run for heap[c]
allExecutor(w, c, iterable, catch) ==
    Calls([w EXCEPT !.scopes[c].promisesLeft = Len(iterable),
                    !.scopes[c].resultArr = [i \in 1 .. Len(iterable) |-> Undefined]],
          <<AllForEachCall(c, iterable, 1, catch)>>)

\* promise.js 345-365: the executor of Promise.race, run for heap[c]
raceExecutor(w, c, iterable, catch) ==
    Calls([w EXCEPT !.scopes[c].finished = FALSE],
          <<RaceForEachCall(c, iterable, 1, catch)>>)

\* _execute without the try and catch of promise.js 219-223
_execute_uncaught(w, c, executor) ==
    CASE executor.k = "then" ->
           thenExecutor(w, c, GlobalThis, executor.onF, executor.onR)
      [] executor.k = "all" -> allExecutor(w, c, executor.iterable, 0)
      [] executor.k = "race" -> raceExecutor(w, c, executor.iterable, 0)
      [] OTHER -> Calls(w, <<ScriptCall(Executors[executor.n], 1, c, 0, 0)>>)

\* promise.js 218-224: executor(this.resolve.bind(this), this.reject.bind(this))
\* is a plain call, so the executor's receiver is the global object; what it
\* throws, heap[c] is rejected with
_execute(w, c, executor) ==
    CASE executor.k = "then" ->
           thenExecutor(w, c, GlobalThis, executor.onF, executor.onR)
      [] executor.k = "all" -> allExecutor(w, c, executor.iterable, c)
      [] executor.k = "race" -> raceExecutor(w, c, executor.iterable, c)
      [] OTHER -> Calls(w, <<ScriptCall(Executors[executor.n], 1, c, 0, c)>>)

\* promise.js 19-60: new Promise(executor); the new Promise is heap[Len(heap)+1]
Promise(w, executor) ==
    LET c == Len(w.heap) + 1
        w1 == [w EXCEPT !.heap = Append(@, NewPromise),
                        !.scopes = Append(@, NoScope),
                        !.first = Append(@, <<>>),
                        !.origin = Append(@, executor)]
    IN  IF executor.k # "none" THEN _execute(w1, c, executor) ELSE Done(w1)

\* promise.js 144-199
then(w, c, onFulfilled, onRejected) ==
    Promise(w, ThenOf(c, onFulfilled, onRejected, w.heap[c].state))

\* promise.js 231-234
_adopt(w, c, promise) ==
    then(w, promise, BoundResolve(c), BoundReject(c))

\* promise.then(...) at promise.js 323 and 349, promise being an element of
\* the iterable: a Promise has then, a number has none and the call throws;
\* next is the rest of the forEach, which an exception abandons
ElementThen(w, promise, onFulfilled, onRejected, next, catch) ==
    IF promise.k = "cell"
    THEN LET r == then(w, promise.n, onFulfilled, onRejected)
         IN  Calls(r.w, r.push \o <<next>>)
    ELSE IF catch # 0
         THEN Calls(w, <<RejectCall(catch, NotAFunctionTypeError)>>)
         ELSE Done([w EXCEPT !.escaped = TRUE])

\* promise.js 322-333: iterable.forEach(function (promise, i) {...})
allForEach(w, fr) ==
    IF fr.i > Len(fr.iterable)
    THEN Done(w)
    ELSE ElementThen(w, fr.iterable[fr.i], AllFulfilled(fr.c, fr.i),
                     AllRejected(fr.c), [fr EXCEPT !.i = @ + 1], fr.catch)

\* promise.js 348-364: iterable.forEach(function (promise) {...})
raceForEach(w, fr) ==
    IF fr.i > Len(fr.iterable)
    THEN Done(w)
    ELSE ElementThen(w, fr.iterable[fr.i], RaceFulfilled(fr.c),
                     RaceRejected(fr.c), [fr EXCEPT !.i = @ + 1], fr.catch)

\* promise.js 317-335
all(w, iterable) ==
    Promise(w, AllOf(iterable))

\* promise.js 344-366
race(w, iterable) ==
    Promise(w, RaceOf(iterable))

\* promise.js 209-211
catch(w, c, onRejected) ==
    then(w, c, Null, onRejected)

\* value.then read at promise.js 91: [thrown, val]
GetThen(value) ==
    CASE value.k = "null" -> [thrown |-> TRUE, val |-> NullTypeError]
      [] value.k = "thenable" /\ Thenables[value.n].getter ->
           [thrown |-> TRUE, val |-> Thenables[value.n].then[1].arg]
      [] value.k = "thenable" -> [thrown |-> FALSE, val |-> Fn(value.n)]
      [] OTHER -> [thrown |-> FALSE, val |-> Undefined]

\* resolve without the identity test of promise.js 76-79
resolve_unchecked(w0, c, value) ==
    LET w == Note(w0, c, IF value.k = "cell" /\ value.n # c THEN value.n ELSE 0)
    IN  IF w.heap[c].state # PENDING
        THEN Done(w)
        ELSE IF value.k = "cell"
        THEN _adopt(w, c, value.n)
        ELSE IF TypeOf(value) = "function" \/ TypeOf(value) = "object"
        THEN LET g == GetThen(value)
             IN  IF g.thrown
                 THEN Calls(w, <<RejectCall(c, g.val)>>)
                 ELSE IF TypeOf(g.val) = "function"
                      THEN Calls(w, <<ScriptCall(Thenables[value.n].then, 1, c, 0, c)>>)
                      ELSE Done(w)
        ELSE _callSuccessFunctions(
                 _setValue([w EXCEPT !.heap[c].state = FULFILLED], c, value),
                 c, value)

\* promise.js 69-118
resolve(w0, c, value) ==
    LET w == Note(w0, c, IF value.k = "cell" /\ value.n # c THEN value.n ELSE 0)
    IN  IF w.heap[c].state # PENDING
        THEN Done(w)
        ELSE IF LooseEquals(value, c)
        THEN Calls(w, <<RejectCall(c, SelfTypeError)>>)
        ELSE IF value.k = "cell"
        THEN _adopt(w, c, value.n)
        ELSE IF TypeOf(value) = "function" \/ TypeOf(value) = "object"
        THEN LET g == GetThen(value)
             IN  IF g.thrown
                 THEN Calls(w, <<RejectCall(c, g.val)>>)
                 ELSE IF TypeOf(g.val) = "function"
                      THEN Calls(w, <<ScriptCall(Thenables[value.n].then, 1, c, 0, c)>>)
                      ELSE Done(w)
        ELSE _callSuccessFunctions(
                 _setValue([w EXCEPT !.heap[c].state = FULFILLED], c, value),
                 c, value)

\* One call of the stack.
Step(w, fr) ==
    CASE fr.op = "resolve" -> resolve(w, fr.c, fr.v)
      [] fr.op = "reject" -> reject(w, fr.c, fr.v)
      [] fr.op = "wrapper" -> onCompleteWrapper(w, fr.wr, fr.v, fr.via)
      [] fr.op = "script" -> RunScript(w, fr)
      [] fr.op = "allEach" -> allForEach(w, fr)
      [] fr.op = "raceEach" -> raceForEach(w, fr)
      [] fr.op = "return" -> Done([w EXCEPT !.returned = fr.v])
      [] OTHER -> thenExecutorRejected(w, fr.c2, fr.this, fr.onR)

\* The call stack, run to the end; an exception nothing catches ends it.
RECURSIVE Run(_, _)
Run(w, stack) ==
    IF stack = <<>> \/ w.escaped
    THEN w
    ELSE LET r == Step(w, Head(stack))
         IN  Run(r.w, r.push \o Tail(stack))

\* A top-level call of the host program, run to its return.
Returns(r) == Run(r.w, r.push)

\* The call r, which then returns value
Returning(r, value) == Calls(r.w, r.push \o <<ReturnCall(value)>>)

\* promise.js 384-386: return new Promise().resolve(value); resolve has no
\* return with a value (promise.js 71, 78, 84, 94, 110, 118)
Promise_resolve(w, value) ==
    LET r == Promise(w, NoExecutor)
    IN  Returning(Calls(r.w, r.push \o <<ResolveCall(Len(w.heap) + 1, value)>>),
                  Undefined)

\* promise.js 374-376: return new Promise().reject(reason); reject has no
\* return with a value (promise.js 127, 133)
Promise_reject(w, reason) ==
    LET r == Promise(w, NoExecutor)
    IN  Returning(Calls(r.w, r.push \o <<RejectCall(Len(w.heap) + 1, reason)>>),
                  Undefined)

(***************************************************************************)
(* The host program: what it passes to the calls below.                    *)
(***************************************************************************)
Cells == 1 .. Len(heap)

\* Values that are no Promise and have no callable then member
PlainInputs == {Num(1), Null, sentinel, Fn(1)}

ThenableInputs == {Thenable(t) : t \in 1 .. Len(Thenables)}

RejectInputs == {Reason}

HandlerInputs == {Undefined} \cup {Fn(h) : h \in 1 .. Len(Handlers)}

\* The Promises the host program made with deferred()
Deferreds == {c \in Cells : origin[c].k = "none"}

\* The arrays passed to Promise.all and Promise.race: up to MaxElements
\* different elements, each a Promise made with deferred() or a number
Iterables ==
    {iterable \in UNION {[1 .. n -> {Num(1)} \cup {Cell(q) : q \in Deferreds}] :
                            n \in 0 .. MaxElements} :
        \A i, j \in 1 .. Len(iterable) : iterable[i] = iterable[j] => i = j}

\* What is passed to the static helpers
StaticInputs == {Num(1), sentinel, Thenable(3)} \cup {Cell(q) : q \in Cells}

\* The Promises of w that the source made for itself with then: the one
\* _adopt makes, and the ones Promise.all and Promise.race make for the
\* elements of their iterable
Internal(w) ==
    {c \in 1 .. Len(w.heap) :
        w.origin[c].k = "then" /\ w.origin[c].onF.k \in {"bres", "allF", "raceF"}}

\* The next state is the world w, within the bounds on the Promises the host
\* program makes and on those the source makes for itself.
Becomes(w) ==
    /\ Len(w.heap) - Cardinality(Internal(w)) <= MaxCells
    /\ Cardinality(Internal(w)) <= MaxInternal
    /\ heap' = w.heap
    /\ scopes' = w.scopes
    /\ returned' = w.returned
    /\ log' = w.log
    /\ first' = w.first
    /\ ignored' = w.ignored
    /\ origin' = w.origin
    /\ escaped' = w.escaped

\* The Promises the host program holds: those a call returned to it.  What
\* the then calls inside the source return is dropped (promise.js 233, 323
\* and 349).
Known == Cells \ Internal(World)

Init ==
    /\ heap = <<>>
    /\ scopes = <<>>
    /\ returned = Undefined
    /\ log = <<>>
    /\ first = <<>>
    /\ ignored = FALSE
    /\ origin = <<>>
    /\ escaped = FALSE

\* adapter.js 7-9: deferred(), new Promise()
Deferred ==
    Becomes(Returns(Returning(Promise(World, NoExecutor), Cell(Len(heap) + 1))))

\* new Promise(Executors[i]); the executors refer to heap[1]
Construct(i) ==
    /\ Cells # {}
    /\ Becomes(Returns(Returning(Promise(World, Script(i)), Cell(Len(heap) + 1))))

\* heap[c].resolve(value)
Resolve(c, value) ==
    Becomes(Returns(Returning(resolve(World, c, value), Undefined)))

\* heap[c].reject(reason)
Reject(c, reason) ==
    Becomes(Returns(Returning(reject(World, c, reason), Undefined)))

\* heap[c].then(onFulfilled, onRejected)
Then(c, onFulfilled, onRejected) ==
    Becomes(Returns(Returning(then(World, c, onFulfilled, onRejected),
                              Cell(Len(heap) + 1))))

\* heap[c].catch(onRejected)
Catch(c, onRejected) ==
    Becomes(Returns(Returning(catch(World, c, onRejected), Cell(Len(heap) + 1))))

\* adapter.js 3: resolved(value) is Promise.resolve(value)
Resolved(value) ==
    Becomes(Returns(Promise_resolve(World, value)))

\* adapter.js 5: rejected(reason) is Promise.reject(reason)
Rejected(reason) ==
    Becomes(Returns(Promise_reject(World, reason)))

\* Promise.all(iterable)
All(iterable) ==
    Becomes(Returns(Returning(all(World, iterable), Cell(Len(heap) + 1))))

\* Promise.race(iterable)
Race(iterable) ==
    Becomes(Returns(Returning(race(World, iterable), Cell(Len(heap) + 1))))

Next ==
    \/ Deferred
    \/ \E i \in 1 .. Len(Executors) : Construct(i)
    \/ \E c \in Known :
           \E value \in PlainInputs \cup ThenableInputs \cup {Cell(c)} :
               Resolve(c, value)
    \/ \E c \in Known, reason \in RejectInputs : Reject(c, reason)

Spec == Init /\ [][Next]_vars

\* The host program of the claims about adoption: it resolves Promises with
\* Promises and settles them with plain values.
NextAdopt ==
    \/ Deferred
    \/ \E c \in Known, value \in {Num(1), Num(2)} \cup {Cell(q) : q \in Known} :
           Resolve(c, value)
    \/ \E c \in Known, reason \in RejectInputs : Reject(c, reason)

SpecAdopt == Init /\ [][NextAdopt]_vars

\* The host program of the claims about then: it settles with plain values
\* and registers handlers.
NextThen ==
    \/ Deferred
    \/ \E c \in Cells : Resolve(c, Num(1))
    \/ \E c \in Cells : Reject(c, Reason)
    \/ \E c \in Cells, onFulfilled \in HandlerInputs, onRejected \in HandlerInputs :
           Then(c, onFulfilled, onRejected)
    \/ \E c \in Cells, onRejected \in HandlerInputs : Catch(c, onRejected)

SpecThen == Init /\ [][NextThen]_vars

\* The host program of the claims about Promise.all and Promise.race: it
\* makes Promises, combines them and settles them with plain values.
NextCombine ==
    \/ Deferred
    \/ \E c \in Deferreds, value \in {Num(1), Num(2)} : Resolve(c, value)
    \/ \E c \in Deferreds, reason \in RejectInputs : Reject(c, reason)
    \/ \E iterable \in Iterables : All(iterable)
    \/ \E iterable \in Iterables : Race(iterable)

SpecCombine == Init /\ [][NextCombine]_vars

\* The host program of the claim about the static helpers.
NextStatic ==
    \/ Deferred
    \/ \E value \in StaticInputs : Resolved(value)
    \/ \E reason \in RejectInputs : Rejected(reason)
    \/ \E c \in Cells : Resolve(c, Num(2))

SpecStatic == Init /\ [][NextStatic]_vars

(***************************************************************************)
(* What the claims speak of.                                               *)
(***************************************************************************)
\* The outcome of heap[c]: its state and its two containers
Outcome(h, c) == <<h[c].state, h[c].vc, h[c].rc>>
FulfilledWith(h, c, v) == Outcome(h, c) = <<FULFILLED, <<v>>, <<>>>>
RejectedWith(h, c, r) == Outcome(h, c) = <<REJECTED, <<>>, <<r>>>>

\* heap[c] has received no resolve or reject call
Fresh(c) == first[c] = <<>>

\* The first call heap[c] received told it to adopt another Promise
Adopted(c) == first[c] # <<>> /\ first[c] # <<0>>

\* The Promises then made for heap[c] when heap[c] was in state was, with a
\* callable handler on the given side ("F" or "R"), in the order of the calls
HandlerOf(c2, side) == IF side = "F" THEN origin[c2].onF ELSE origin[c2].onR
ThenCalls(c, was, side) ==
    SelectSeq([i \in 1 .. Len(heap) |-> i],
              LAMBDA c2 : /\ origin[c2].k = "then"
                          /\ origin[c2].n = c
                          /\ origin[c2].was = was
                          /\ TypeOf(HandlerOf(c2, side)) = "function")

\* The handler invocations of the history made for those Promises from the
\* call named via, and the invocations the registration order asks for
Delivered(regs, via) ==
    SelectSeq(log, LAMBDA e : e.via = via /\ \E i \in 1 .. Len(regs) : regs[i] = e.c2)
InOrder(regs, side, v, via) ==
    [i \in 1 .. Len(regs) |->
        [fn |-> HandlerOf(regs[i], side), arg |-> v, c2 |-> regs[i], via |-> via]]

\* The wrapper made for heap[c2] is kept in some observer list
Kept(c2) ==
    \E c \in Cells :
        \/ \E i \in 1 .. Len(heap[c].onF) : heap[c].onF[i].c2 = c2
        \/ \E i \in 1 .. Len(heap[c].onR) : heap[c].onR[i].c2 = c2
Invoked(c2) == \E i \in 1 .. Len(log) : log[i].c2 = c2

(***************************************************************************)
(* C1.  Single settlement: once a Promise has left the pending state, no   *)
(* call of the host program changes its state, its value or its reason;    *)
(* and of the calls an executor or a thenable makes through the bound      *)
(* callbacks, only the first one that settles the Promise decides.         *)
(***************************************************************************)
C1_SingleSettlement ==
    [][ /\ \A c \in Cells :
              heap[c].state # PENDING => Outcome(heap', c) = Outcome(heap, c)
        /\ \A c \in Cells :
              Fresh(c) /\ Resolve(c, Thenable(7)) => FulfilledWith(heap', c, Num(1))
        /\ Construct(2) => FulfilledWith(heap', Len(heap) + 1, Num(1))
        /\ Construct(3) => RejectedWith(heap', Len(heap) + 1, Reason) ]_vars

\* A call reached a settled Promise, which still has a consistent outcome.
C1_Witness ==
    /\ ignored
    /\ \E c \in Cells : FulfilledWith(heap, c, Num(1))
    /\ \E c \in Cells : RejectedWith(heap, c, Reason)

(***************************************************************************)
(* C2.  Only the first resolve or reject call takes effect: a Promise      *)
(* whose first call was resolve(q) with q a still pending Promise is not   *)
(* changed by a later direct resolve or reject call.                       *)
(***************************************************************************)
C2_FirstCallWins ==
    [][ \A c \in Cells :
           ( /\ Adopted(c)
             /\ heap[first[c][1]].state = PENDING
             /\ \/ \E value \in {Num(1), Num(2)} : Resolve(c, value)
                \/ \E reason \in RejectInputs : Reject(c, reason) )
           => Outcome(heap', c) = Outcome(heap, c) ]_vars

(***************************************************************************)
(* C3.  Continuation dispatch is never synchronous, and every continuation *)
(* runs on a later turn than the call that triggered it: no handler is     *)
(* invoked from inside resolve, reject or then, and a handler passed to    *)
(* then on a settled Promise has run or is kept for a later run.           *)
(***************************************************************************)
C3_DispatchIsDeferred ==
    /\ \A i \in 1 .. Len(log) : log[i].via \notin {"resolve", "reject", "then"}
    /\ \A c \in Cells :
          /\ \A i \in 1 .. Len(ThenCalls(c, FULFILLED, "F")) :
                LET c2 == ThenCalls(c, FULFILLED, "F")[i]
                IN  Invoked(c2) \/ Kept(c2)
          /\ \A i \in 1 .. Len(ThenCalls(c, REJECTED, "R")) :
                LET c2 == ThenCalls(c, REJECTED, "R")[i]
                IN  Invoked(c2) \/ Kept(c2)

(***************************************************************************)
(* C4.  Order preservation: the callable fulfillment handlers passed to    *)
(* then while a Promise was pending are each invoked exactly once with its *)
(* value, in the order of the then calls, when it is fulfilled; and the    *)
(* rejection handlers likewise with its reason when it is rejected.        *)
(***************************************************************************)
C4_OrderPreserved ==
    \A c \in Cells :
        /\ heap[c].state = FULFILLED =>
              Delivered(ThenCalls(c, PENDING, "F"), "resolve")
                  = InOrder(ThenCalls(c, PENDING, "F"), "F", heap[c].vc[1], "resolve")
        /\ heap[c].state = REJECTED =>
              Delivered(ThenCalls(c, PENDING, "R"), "reject")
                  = InOrder(ThenCalls(c, PENDING, "R"), "R", heap[c].rc[1], "reject")

(***************************************************************************)
(* C5.  Direct fulfillment: resolve(value) on a Promise that has received  *)
(* no call yet, with a value that is no Promise and has no callable then,  *)
(* leaves the Promise fulfilled with exactly that value.                   *)
(***************************************************************************)
C5_DirectFulfillment ==
    [][ \A c \in Cells : \A value \in PlainInputs :
           Fresh(c) /\ Resolve(c, value) => FulfilledWith(heap', c, value) ]_vars

(***************************************************************************)
(* C6.  Adoption mirrors the adopted Promise: a Promise whose first call   *)
(* was resolve(q) has the outcome of q, pending as long as q is pending,   *)
(* fulfilled with q's value or rejected with q's reason once q is settled  *)
(* (the source dispatches inside the settling call, promise.js 117 and     *)
(* 132, so the outcome is due when that call returns).                     *)
(***************************************************************************)
C6_AdoptionMirrors ==
    \A c \in Cells :
        Adopted(c) => Outcome(heap, c) = Outcome(heap, first[c][1])

(***************************************************************************)
(* C7.  First wins on a thenable: a Promise resolved with the thenable of  *)
(* test.js, whose then passes the pending Promise d = heap[1] to its       *)
(* resolve callback and then throws, follows d and is not rejected with    *)
(* what then threw.                                                        *)
(***************************************************************************)
C7_ThenableFirstWins ==
    [][ \A c \in Cells :
           ( /\ c # 1
             /\ Fresh(c)
             /\ heap[1].state = PENDING
             /\ Resolve(c, Thenable(4)) )
           => heap'[c].state # REJECTED ]_vars

(***************************************************************************)
(* C8.  Self-resolution: resolve called on a pending Promise with that     *)
(* Promise as the value leaves it rejected with the TypeError.             *)
(***************************************************************************)
C8_SelfResolution ==
    [][ \A c \in Cells :
           heap[c].state = PENDING /\ Resolve(c, Cell(c))
               => RejectedWith(heap', c, SelfTypeError) ]_vars

C8_Witness ==
    \E c \in Cells : RejectedWith(heap, c, SelfTypeError) /\ first[c] = <<0>>

(***************************************************************************)
(* C9.  Thenable inspection failure: a Promise resolved with a value whose *)
(* then getter throws e, or whose then throws e before calling a callback, *)
(* is rejected with e; when then throws after it called a callback, the    *)
(* error is discarded and the outcome is the one the callback fixed.       *)
(***************************************************************************)
C9_InspectionFailure ==
    [][ \A c \in Cells :
           Fresh(c) =>
               /\ Resolve(c, Thenable(1)) => RejectedWith(heap', c, other)
               /\ Resolve(c, Thenable(5)) => RejectedWith(heap', c, other)
               /\ Resolve(c, Thenable(3)) => FulfilledWith(heap', c, Num(1))
               /\ Resolve(c, Thenable(6)) => heap'[c].state = PENDING ]_vars

(***************************************************************************)
(* C10.  Setup-routine failure: when the executor throws e, the new        *)
(* Promise is rejected with e unless a call the executor made before had   *)
(* settled it, and the exception does not leave the constructor.           *)
(***************************************************************************)
C10_ExecutorThrows ==
    [][ \A i \in 1 .. Len(Executors) :
           Construct(i) =>
               LET c == Len(heap) + 1
                   s == Executors[i][1]
                   e == Executors[i][Len(Executors[i])].arg
               IN  /\ ~escaped'
                   /\ s.op = "throw" => RejectedWith(heap', c, e)
                   /\ s.op = "rej" => RejectedWith(heap', c, s.arg)
                   /\ s.op = "res" /\ s.arg.k = "num" =>
                          FulfilledWith(heap', c, s.arg) ]_vars

C10_Witness ==
    /\ ~escaped
    /\ \E c \in Cells : origin[c] = Script(1) /\ RejectedWith(heap, c, ExecError)

(***************************************************************************)
(* What the claims about then speak of: the Promises then made for some    *)
(* Promise, the invocations of the history made for one of them, and what  *)
(* a handler's script asks of the Promise made for it.                     *)
(***************************************************************************)
ThenCells == {c2 \in Cells : origin[c2].k = "then"}
InvocationsFor(c2) == SelectSeq(log, LAMBDA e : e.c2 = c2)
HandlerResult(h, c2, fn) ==
    LET s == Handlers[fn.n][1]
    IN  IF s.op = "throw"
        THEN RejectedWith(h, c2, s.arg)
        ELSE FulfilledWith(h, c2, s.arg)

(***************************************************************************)
(* C11.  Chaining result: for c2 = c.then(onFulfilled, _) with a callable  *)
(* onFulfilled, made while c was pending or fulfilled, once c is fulfilled *)
(* with v the handler has been invoked exactly once, with v; c2 is         *)
(* resolved with what it returned or rejected with what it threw, and no   *)
(* exception escapes.  (The source has no later turn: what a settlement    *)
(* causes is done when the settling call returns.)                         *)
(***************************************************************************)
C11_ChainingResult ==
    /\ ~escaped
    /\ \A c2 \in ThenCells :
          LET c == origin[c2].n
              onFulfilled == origin[c2].onF
          IN  TypeOf(onFulfilled) = "function" /\ heap[c].state = FULFILLED =>
                  /\ Len(InvocationsFor(c2)) = 1
                  /\ InvocationsFor(c2)[1].fn = onFulfilled
                  /\ InvocationsFor(c2)[1].arg = heap[c].vc[1]
                  /\ HandlerResult(heap, c2, onFulfilled)

(***************************************************************************)
(* C12.  Pass-through of fulfillment: for c2 = c.then(nonCallable, h) and  *)
(* for c2 = c.catch(h), once c is fulfilled with v, c2 is fulfilled with v *)
(* and h has not been invoked.                                             *)
(***************************************************************************)
C12_FulfillmentPassesThrough ==
    \A c2 \in ThenCells :
        LET c == origin[c2].n
        IN  TypeOf(origin[c2].onF) # "function" /\ heap[c].state = FULFILLED =>
                /\ FulfilledWith(heap, c2, heap[c].vc[1])
                /\ InvocationsFor(c2) = <<>>

(***************************************************************************)
(* C13.  The rejection continuation is symmetric: for c2 = c.then(_,       *)
(* onRejected), once c is rejected with r a callable onRejected has been   *)
(* invoked exactly once, with r, and c2 has what it returned or threw;     *)
(* with a non-callable onRejected c2 is rejected with r.                   *)
(***************************************************************************)
C13_RejectionSymmetric ==
    \A c2 \in ThenCells :
        LET c == origin[c2].n
            onRejected == origin[c2].onR
        IN  heap[c].state = REJECTED =>
                IF TypeOf(onRejected) = "function"
                THEN /\ Len(InvocationsFor(c2)) = 1
                     /\ InvocationsFor(c2)[1].fn = onRejected
                     /\ InvocationsFor(c2)[1].arg = heap[c].rc[1]
                     /\ HandlerResult(heap, c2, onRejected)
                ELSE RejectedWith(heap, c2, heap[c].rc[1])

(***************************************************************************)
(* What the claims about the combinators speak of: the Promises all and    *)
(* race returned, and the outcome an element of their iterable has, a      *)
(* number counting as fulfilled with itself.                               *)
(***************************************************************************)
AllCells == {a \in Cells : origin[a].k = "all"}
RaceCells == {a \in Cells : origin[a].k = "race"}
ElementOutcome(e) ==
    IF e.k = "cell" THEN Outcome(heap, e.n) ELSE <<FULFILLED, <<e>>, <<>>>>
ElementOutcomes(iterable, state) ==
    {o \in {ElementOutcome(iterable[i]) : i \in 1 .. Len(iterable)} : o[1] = state}

(***************************************************************************)
(* C14.  all fulfills in input order: once every element of the iterable   *)
(* is fulfilled (a number is, with itself), the Promise all returned is    *)
(* fulfilled with an array as long as the iterable whose i-th element is   *)
(* the value of the i-th element; at once, with the empty array, for the   *)
(* empty iterable.                                                         *)
(***************************************************************************)
C14_AllFulfillsInOrder ==
    \A a \in AllCells :
        LET iterable == origin[a].iterable
        IN  (\A i \in 1 .. Len(iterable) : ElementOutcome(iterable[i])[1] = FULFILLED)
            => /\ FulfilledWith(heap, a, Arr(a))
               /\ scopes[a].resultArr =
                      [i \in 1 .. Len(iterable) |-> ElementOutcome(iterable[i])[2][1]]

(***************************************************************************)
(* C15.  all rejects with the first rejection: once an element of the      *)
(* iterable is rejected, the Promise all returned is rejected, with the    *)
(* reason of a rejected element, and no later settlement of an element     *)
(* changes its outcome.                                                    *)
(***************************************************************************)
C15_AllRejectsFirst ==
    [][ \A a \in AllCells :
           /\ heap[a].state = REJECTED => Outcome(heap', a) = Outcome(heap, a)
           /\ ElementOutcomes(origin[a].iterable, REJECTED) # {}
                  => /\ heap[a].state = REJECTED
                     /\ <<REJECTED, <<>>, heap[a].rc>>
                            \in ElementOutcomes(origin[a].iterable, REJECTED) ]_vars

(***************************************************************************)
(* C16.  race takes the first settlement: once an element of the iterable  *)
(* is settled, the Promise race returned is settled with the outcome of a  *)
(* settled element, and no later settlement of an element changes it.      *)
(***************************************************************************)
C16_RaceFirstSettlement ==
    [][ \A a \in RaceCells :
           LET iterable == origin[a].iterable
               settled == ElementOutcomes(iterable, FULFILLED)
                              \cup ElementOutcomes(iterable, REJECTED)
           IN  /\ heap[a].state # PENDING => Outcome(heap', a) = Outcome(heap, a)
               /\ (\A i \in 1 .. Len(iterable) : iterable[i].k = "cell") /\ settled # {}
                      => Outcome(heap, a) \in settled ]_vars

(***************************************************************************)
(* C17.  The static helpers return Promises: resolved(value) returns a new *)
(* Promise, the one it called resolve(value) on, and rejected(reason)      *)
(* returns a new Promise that is rejected with reason.                     *)
(***************************************************************************)
C17_StaticHelpersReturnPromises ==
    [][ /\ \A value \in StaticInputs :
              Resolved(value) =>
                  /\ returned' = Cell(Len(heap) + 1)
                  /\ first'[Len(heap) + 1] # <<>>
        /\ \A reason \in RejectInputs :
              Rejected(reason) =>
                  /\ returned' = Cell(Len(heap) + 1)
                  /\ RejectedWith(heap', Len(heap) + 1, reason) ]_vars

(***************************************************************************)
(* C18.  Thenable adoption depth: a Promise that has received no call yet, *)
(* resolved with a thenable whose then passes a second thenable to its     *)
(* resolve callback, whose then passes sentinel to its resolve callback,   *)
(* is fulfilled with sentinel; and likewise with three thenables nested.   *)
(* (The nested calls are synchronous: the outcome is due when resolve      *)
(* returns.)                                                               *)
(***************************************************************************)
C18_ThenableDepth ==
    [][ \A c \in Cells :
           Fresh(c) =>
               /\ Resolve(c, Thenable(8)) => FulfilledWith(heap', c, sentinel)
               /\ Resolve(c, Thenable(10)) => FulfilledWith(heap', c, sentinel) ]_vars

(***************************************************************************)
(* C19.  State and value invariant: the value container of a Promise is    *)
(* populated only when it is fulfilled, the reason container only when it  *)
(* is rejected, never both and neither while it is pending; and its state  *)
(* changes only from pending, to fulfilled or to rejected.                 *)
(***************************************************************************)
C19_StateValueInvariant ==
    [][ /\ \A c \in 1 .. Len(heap') :
              /\ heap'[c].state \in {PENDING, FULFILLED, REJECTED}
              /\ heap'[c].vc # <<>> => heap'[c].state = FULFILLED
              /\ heap'[c].rc # <<>> => heap'[c].state = REJECTED
              /\ heap'[c].state = FULFILLED => heap'[c].vc # <<>>
              /\ heap'[c].state = REJECTED => heap'[c].rc # <<>>
        /\ \A c \in Cells :
              heap'[c].state # heap[c].state => heap[c].state = PENDING ]_vars

\* A pending, a fulfilled and a rejected Promise side by side, after a call
\* that found its Promise settled.
C19_Witness ==
    /\ ignored
    /\ \E c \in Cells : heap[c].state = PENDING /\ heap[c].vc = <<>> /\ heap[c].rc = <<>>
    /\ \E c \in Cells : heap[c].state = FULFILLED /\ heap[c].vc = <<Num(1)>>
    /\ \E c \in Cells : heap[c].state = REJECTED /\ heap[c].rc # <<>>

(***************************************************************************)
(* C20.  Cycles fail rather than deadlock: two Promises whose first calls  *)
(* were resolve with each other are both rejected.  (The source leaves     *)
(* nothing to be done after a call returns, so what the cycle causes is    *)
(* due when the second resolve returns.)                                   *)
(***************************************************************************)
C20_CyclesFail ==
    \A p \in Cells : \A q \in Cells :
        (p # q /\ first[p] = <<q>> /\ first[q] = <<p>>)
            => heap[p].state = REJECTED /\ heap[q].state = REJECTED

====
